---------------------------- MODULE Spec2Model ----------------------------
(***************************************************************************)
(* Mimora waitlist: the e-mail notification endpoint (handler,             *)
(* isRateLimited, sanitizeInput) and the waitlist slide-over form          *)
(* controller (WaitlistSlider, validate, submitToHubSpot, the local        *)
(* submission cache).                                                      *)
(*                                                                         *)
(* Strings are sequences of one-character strings, so that trim, strip,    *)
(* substring, toLowerCase and the regular expressions are computed.        *)
(***************************************************************************)
EXTENDS Integers, Sequences, FiniteSets, TLC

VARIABLES
    \* ---- e-mail endpoint (one serverless process) ----
    emailAttempts,   \* Map<string, number[]>: address -> recorded timestamps
    now,             \* Date.now() of the endpoint process, ms since start
    env,             \* process.env: SMTP_USER / SMTP_PASS set?, NODE_ENV
    inflight,        \* handler calls at await sendMail: [req, mail]
    mailCalls,       \* address -> number of sendMail calls made so far
    history,         \* address -> every isRateLimited call: [t, limited]
    ticks,           \* number of clock advances so far
    lastReq,         \* the request last taken or answered
    lastResp,        \* the response last written
    \* ---- waitlist slider (one WaitlistSlider instance in one browser) ----
    isOpen,          \* the isOpen prop (Navbar's isSliderOpen)
    formData,        \* useState<FormData>
    errors,          \* useState<FormErrors>: field -> message, "" for none
    touched,         \* useState<Record<string, boolean>>: the fields set
    isSubmitting,    \* useState(false)
    isSuccess,       \* useState(false)
    categoryOpen,    \* useState(false)
    alreadyJoined,   \* useState<StoredWaitlistData | null>
    storage,         \* localStorage's value under WAITLIST_STORAGE_KEY
    storageMode,     \* does localStorage work: "ok", "full", "denied"
    resetTimer,      \* is the 400 ms reset timeout pending
    pending,         \* handleSubmit calls at await submitToHubSpot
    posts,           \* number of fetch POSTs issued to the CRM
    lastCall,        \* the CRM call the last step settled: the answer and `ok`
    uncaught,        \* the function an exception last escaped from, or ""
    bodyOverflow,    \* document.body.style.overflow: "hidden" or ""
    escListeners,    \* number of handleEsc listeners registered on window
    unmounted,       \* has React unmounted the instance
    blurTimers,      \* pending 150 ms timeouts of the category button's onBlur
    \* ---- both ----
    op               \* the step last taken

endpointVars == <<emailAttempts, now, env, inflight, mailCalls, history, ticks,
                  lastReq, lastResp>>

sliderVars == <<isOpen, formData, errors, touched, isSubmitting, isSuccess,
                categoryOpen, alreadyJoined, storage, storageMode, resetTimer,
                pending, posts, lastCall, uncaught, bodyOverflow,
                escListeners, unmounted, blurTimers>>

\* What the events of the form leave alone: the page, the mount and the
\* timeouts of the dropdown.
domVars == <<bodyOverflow, escListeners, unmounted, blurTimers>>

vars == <<endpointVars, sliderVars, op>>

-----------------------------------------------------------------------------
(* Bounds of the model *)

MaxChecks == 5        \* isRateLimited calls explored by SpecLimiter
MaxTicks == 2         \* clock advances explored by SpecLimiter
MaxInFlight == 2      \* messages awaiting the relay at once, SpecLimiter
GateChecks == 4       \* isRateLimited calls explored by SpecEndpoint
GateTicks == 1        \* clock advances explored by SpecEndpoint
GateInFlight == 1     \* messages awaiting the relay at once, SpecEndpoint
ConcurrentChecks == 5     \* rate-limit checks of the one contended address
ConcurrentInFlight == 3   \* requests of that address awaiting the relay at once
MaxSubmits == 2       \* CRM submissions explored by SpecSlider
MaxBlurTimers == 1    \* timeouts of the dropdown's onBlur pending at once

-----------------------------------------------------------------------------
(* Strings *)

Rep(c, n) == [i \in 1..n |-> c]

IsSpace(c) == c \in {" ", "\t", "\n"}

\* String.prototype.trim
Trim(s) ==
    IF \A i \in 1..Len(s) : IsSpace(s[i]) THEN <<>>
    ELSE LET first == CHOOSE i \in 1..Len(s) :
                          ~IsSpace(s[i]) /\ \A j \in 1..(i - 1) : IsSpace(s[j])
             last == CHOOSE i \in 1..Len(s) :
                          ~IsSpace(s[i]) /\ \A j \in (i + 1)..Len(s) : IsSpace(s[j])
         IN  SubSeq(s, first, last)

IsTagChar(c) == c \in {"<", ">"}

\* .replace(/[<>]/g, '')
StripTags(s) == SelectSeq(s, LAMBDA c : ~IsTagChar(c))

\* .substring(0, n)
Substring0(s, n) == SubSeq(s, 1, IF Len(s) < n THEN Len(s) ELSE n)

LowerChar(c) ==
    CASE c = "J" -> "j"
      [] c = "O" -> "o"
      [] c = "X" -> "x"
      [] c = "A" -> "a"
      [] OTHER -> c

\* String.prototype.toLowerCase
ToLowerCase(s) == [i \in 1..Len(s) |-> LowerChar(s[i])]

\* /^[^\s@]+@[^\s@]+\.[^\s@]+$/.test(s)
EmailRegexTest(s) ==
    \E i \in 1..Len(s) :
        /\ s[i] = "@"
        /\ i > 1
        /\ \A j \in 1..Len(s) : j # i => (~IsSpace(s[j]) /\ s[j] # "@")
        /\ \E k \in (i + 2)..(Len(s) - 1) : s[k] = "."


-----------------------------------------------------------------------------
(* E-mail endpoint: configuration and requests *)

WINDOW_MS == 3600000
MAX_PER_WINDOW == 3
MAX_INPUT_LEN == 500
NAME_MIN_LEN == 2
NAME_MAX_LEN == 100

\* A JSON value of the request body: a string, absent (undefined, null), or
\* a truthy value that is not a string (42, [], {}).
Str(s) == [k |-> "str", v |-> s]
Undefined == [k |-> "undefined", v |-> <<>>]
NotAString == [k |-> "other", v |-> <<>>]

\* !x for a body value
Falsy(x) == x.k = "undefined" \/ (x.k = "str" /\ x.v = <<>>)

sJo == <<"J", "o">>
sTaggedJ == <<"<", "J", ">">>
sJoAtX == <<"j", "o", "@", "x", ".", "c", "o">>
sJoAtXMixed == <<" ", "J", "o", "@", "X", ".", "c", "o", " ">>
sAlAtX == <<"a", "l", "@", "x", ".", "c", "o">>
sNoAt == <<"j", "o", ".", "x">>
sArtist == <<"a", "r", "t", "i", "s", "t">>
sArtistPadded == <<" ", "a", "r", "t", "i", "s", "t">>
sCustomer == <<"c", "u", "s", "t", "o", "m", "e", "r">>
sManager == <<"m", "a", "n", "a", "g", "e", "r">>
sTaggedJo == <<" ", "<", "J", "o", ">">>

\* A padded, tagged address of MAX_INPUT_LEN + 4 characters besides.
sLongEmail ==
    <<" ", "<", "J", "@", "x", ".">> \o Rep("o", MAX_INPUT_LEN) \o <<">", " ">>
sLongName == <<"<">> \o Rep("a", MAX_INPUT_LEN + 1)
sTaggedNoAt == <<"<", "j", "o", ".", "x", ">">>
sTaggedManager == <<"<", "m", "a", "n", "a", "g", "e", "r", ">", " ">>

Body(name, email, role) ==
    [present |-> TRUE, name |-> name, email |-> email, role |-> role]

\* No body was sent: req.body is undefined.
NoBody == [present |-> FALSE, name |-> Undefined, email |-> Undefined,
           role |-> Undefined]

\* Bodies that pass every gate before the rate limiter.
ValidBodies ==
    { Body(Str(sJo), Str(sJoAtX), Str(sArtist)),
      Body(Str(sJo), Str(sJoAtXMixed), Str(sCustomer)),
      Body(Str(Rep("a", NAME_MAX_LEN)), Str(sAlAtX), Str(sArtistPadded)) }

Bodies ==
    [present : {TRUE},
     name : {Str(sJo), Str(sTaggedJ), Undefined},
     email : {Str(sJoAtX), Str(sJoAtXMixed), Str(sNoAt), Undefined},
     role : {Str(sArtist), Str(sManager), Undefined}]
    \cup ValidBodies
    \cup { NoBody,
           Body(Str(Rep("a", NAME_MAX_LEN + 1)), Str(sJoAtX), Str(sArtist)),
           Body(Str(<<>>), Str(sJoAtX), Str(sArtist)),
           Body(Str(<<" ">>), Str(sJoAtX), Str(sArtist)),
           Body(NotAString, Str(sJoAtX), Str(sArtist)),
           Body(Str(sJo), NotAString, Str(sManager)),
           Body(NotAString, Undefined, Str(sArtist)) }

\* Bodies of strings that sanitizeInput changes: padded, tagged, and longer
\* than MAX_INPUT_LEN.
SanitizeBodies ==
    { Body(Str(n), Str(e), Str(r)) :
          n \in {sTaggedJo, sTaggedJ, sLongName},
          e \in {sLongEmail, sJoAtXMixed, sTaggedNoAt},
          r \in {sArtistPadded, sTaggedManager} }

Methods == {"POST", "OPTIONS", "GET"}

\* Requests whose method is not POST are told apart by the method alone.
Requests ==
    [method : {"POST"}, body : Bodies \cup SanitizeBodies] \cup
    [method : Methods \ {"POST"}, body : {NoBody}]

RECURSIVE SetToSeq(_)
SetToSeq(S) ==
    IF S = {} THEN <<>>
    ELSE LET x == CHOOSE y \in S : TRUE IN <<x>> \o SetToSeq(S \ {x})

\* The requests, numbered.
RequestList == SetToSeq(Requests)
RequestIds == 1..Len(RequestList)

Envs == [SMTP_USER : BOOLEAN, SMTP_PASS : BOOLEAN,
         NODE_ENV : {"production", "development", "test"}]

\* Clock advances between two requests (ms): within the window, up to its
\* edge, and past it.
ClockSteps == {1, WINDOW_MS - 1, WINDOW_MS + 100000}

-----------------------------------------------------------------------------
(* Rate limiter *)

Get(m, key) == IF key \in DOMAIN m THEN m[key] ELSE <<>>
Put(m, key, val) ==
    [x \in (DOMAIN m) \cup {key} |-> IF x = key THEN val ELSE m[x]]

\* The filter with a one-minute window in place of the one-hour window.
recentAttemptsShortWindow(email) ==
    SelectSeq(Get(emailAttempts, email), LAMBDA time : now - time < 60000)

\* attempts.filter(time => now - time < 3600000)
recentAttempts(email) ==
    SelectSeq(Get(emailAttempts, email), LAMBDA time : now - time < WINDOW_MS)

\* isRateLimited with the comparison off by one (> instead of >=).
isRateLimitedOffByOne(email) == Len(recentAttempts(email)) > MAX_PER_WINDOW

\* The value isRateLimited returns.
\* isRateLimited reading a ledger that lacks the attempts of the requests
\* still awaiting the relay, as if their appends had not happened yet.
isRateLimitedStale(email) ==
    LET waiting == Cardinality({i \in 1..Len(inflight) :
                                   inflight[i].mail.to = email})
    IN  Len(recentAttempts(email)) - waiting >= MAX_PER_WINDOW

isRateLimited(email) == Len(recentAttempts(email)) >= MAX_PER_WINDOW

\* The map left behind when the unfiltered list is the one pushed to and
\* stored.
emailAttemptsAfterNoPrune(email) ==
    IF isRateLimited(email)
    THEN emailAttempts
    ELSE Put(emailAttempts, email, Append(Get(emailAttempts, email), now))

\* The map left behind when a rejected check records its timestamp too.
emailAttemptsAfterAlwaysRecords(email) ==
    Put(emailAttempts, email, Append(recentAttempts(email), now))

\* The map isRateLimited leaves behind.
emailAttemptsAfter(email) ==
    IF isRateLimited(email)
    THEN emailAttempts
    ELSE Put(emailAttempts, email, Append(recentAttempts(email), now))

-----------------------------------------------------------------------------
(* Sanitization and the handler's gates *)

\* sanitizeInput without the replace of line 240.
sanitizeInputNoStrip(input) == Substring0(Trim(input), MAX_INPUT_LEN)

sanitizeInput(input) ==
    Substring0(StripTags(Trim(input)), MAX_INPUT_LEN)

\* Lines 285-287 without the toLowerCase() of the address.
SanitizedFieldsKeepsCase(body) ==
    [name |-> sanitizeInput(body.name.v),
     email |-> sanitizeInput(body.email.v),
     role |-> sanitizeInput(body.role.v)]

\* Lines 285-287 for one body: sanitizedName, sanitizedEmail, sanitizedRole.
SanitizedFields(body) ==
    [name |-> sanitizeInput(body.name.v),
     email |-> ToLowerCase(sanitizeInput(body.email.v)),
     role |-> sanitizeInput(body.role.v)]

\* const { name, email, role } = req.body throws when there is no body;
\* sanitizeInput(x) throws when x is not a string.
Throws(body) ==
    \/ ~body.present
    \/ \E x \in {body.name, body.email, body.role} : x.k # "str"

Missing(body) == Falsy(body.name) \/ Falsy(body.email) \/ Falsy(body.role)

\* The gates without the role check of lines 295-298.
RequestGateNoRole(req) ==
    LET body == req.body
        san == SanitizedFields(body)
    IN  IF req.method = "OPTIONS" THEN "preflight"
        ELSE IF req.method # "POST" THEN "method"
        ELSE IF ~body.present THEN "throw"
        ELSE IF Missing(body) THEN "missing"
        ELSE IF Throws(body) THEN "throw"
        ELSE IF ~EmailRegexTest(san.email) THEN "email"
        ELSE IF Len(san.name) < NAME_MIN_LEN \/ Len(san.name) > NAME_MAX_LEN
        THEN "name"
        ELSE "pass"

\* The gates of lines 261-303 that read the request alone: the first one
\* that answers, or "pass".
RequestGate(req) ==
    LET body == req.body
        san == SanitizedFields(body)
    IN  IF req.method = "OPTIONS" THEN "preflight"
        ELSE IF req.method # "POST" THEN "method"
        ELSE IF ~body.present THEN "throw"
        ELSE IF Missing(body) THEN "missing"
        ELSE IF Throws(body) THEN "throw"
        ELSE IF ~EmailRegexTest(san.email) THEN "email"
        ELSE IF san.role \notin {sArtist, sCustomer} THEN "role"
        ELSE IF Len(san.name) < NAME_MIN_LEN \/ Len(san.name) > NAME_MAX_LEN
        THEN "name"
        ELSE "pass"

RECURSIVE GateRows(_)
GateRows(n) ==
    IF n = 0 THEN <<>>
    ELSE Append(GateRows(n - 1),
                [gate |-> RequestGate(RequestList[n]),
                 san |-> SanitizedFields(RequestList[n].body)])

\* RequestGate and SanitizedFields of every numbered request.
GateTable == GateRows(Len(RequestList))

Gate(id) == GateTable[id].gate
San(id) == GateTable[id].san

Response(status, success, error, message, details) ==
    [status |-> status, json |-> TRUE, success |-> success, error |-> error,
     message |-> message, details |-> details]

\* res.status(200).end()
EmptyResponse(status) ==
    [status |-> status, json |-> FALSE, success |-> FALSE, error |-> "",
     message |-> "", details |-> ""]

\* The catch block with the exception's message in every mode.
CaughtResponseWithDetails(e) ==
    Response(500, FALSE, "Failed to send email", "", e)

\* The catch block: 500, with the exception's message in development only.
CaughtResponse(e) ==
    Response(500, FALSE, "Failed to send email", "",
             IF env.NODE_ENV = "development" THEN e ELSE "")

\* The request got as far as await transporter.sendMail: no response yet.
Awaiting == EmptyResponse(0)

\* The answers with a credentials gate that names the missing variable.
OutcomeNamesVariable(id) ==
    LET g == Gate(id)
    IN  IF g = "preflight" THEN EmptyResponse(200)
        ELSE IF g = "method"
        THEN Response(405, FALSE, "Method not allowed", "", "")
        ELSE IF ~env.SMTP_USER
        THEN Response(500, FALSE, "SMTP_USER is not set", "", "")
        ELSE IF ~env.SMTP_PASS
        THEN Response(500, FALSE, "SMTP_PASS is not set", "", "")
        ELSE IF g = "throw" THEN CaughtResponse("TypeError")
        ELSE IF g = "missing"
        THEN Response(400, FALSE, "Missing required fields", "", "")
        ELSE IF g = "email"
        THEN Response(400, FALSE, "Invalid email format", "", "")
        ELSE IF g = "role" THEN Response(400, FALSE, "Invalid role", "", "")
        ELSE IF g = "name"
        THEN Response(400, FALSE, "Invalid name length", "", "")
        ELSE IF isRateLimited(San(id).email)
        THEN Response(429, FALSE,
                      "Too many requests. Please try again later.", "", "")
        ELSE Awaiting

\* What the handler answers before its only await.
Outcome(id) ==
    LET g == Gate(id)
    IN  IF g = "preflight" THEN EmptyResponse(200)
        ELSE IF g = "method"
        THEN Response(405, FALSE, "Method not allowed", "", "")
        ELSE IF ~env.SMTP_USER \/ ~env.SMTP_PASS
        THEN Response(500, FALSE, "Server configuration error", "", "")
        ELSE IF g = "throw" THEN CaughtResponse("TypeError")
        ELSE IF g = "missing"
        THEN Response(400, FALSE, "Missing required fields", "", "")
        ELSE IF g = "email"
        THEN Response(400, FALSE, "Invalid email format", "", "")
        ELSE IF g = "role" THEN Response(400, FALSE, "Invalid role", "", "")
        ELSE IF g = "name"
        THEN Response(400, FALSE, "Invalid name length", "", "")
        ELSE IF isRateLimited(San(id).email)
        THEN Response(429, FALSE,
                      "Too many requests. Please try again later.", "", "")
        ELSE Awaiting

\* Whether the handler calls isRateLimited for this request.
CallsRateLimiter(id) ==
    Gate(id) = "pass" /\ env.SMTP_USER /\ env.SMTP_PASS

ChecksSoFar ==
    LET RECURSIVE Sum(_)
        Sum(S) == IF S = {} THEN 0
                  ELSE LET x == CHOOSE y \in S : TRUE
                       IN  Len(history[x]) + Sum(S \ {x})
    IN  Sum(DOMAIN history)

\* handler, up to its only await: the gates, the ledger update and the call
\* of transporter.sendMail.
HandlerStart(id, maxChecks, maxInFlight) ==
    LET email == San(id).email
    IN  /\ Len(inflight) < maxInFlight
        /\ CallsRateLimiter(id) => ChecksSoFar < maxChecks
        /\ lastReq' = RequestList[id]
        /\ op' = "handler"
        /\ lastResp' = Outcome(id)
        /\ IF CallsRateLimiter(id)
           THEN /\ emailAttempts' = emailAttemptsAfter(email)
                /\ history' = Put(history, email,
                       Append(Get(history, email),
                              [t |-> now, limited |-> isRateLimited(email)]))
                /\ IF isRateLimited(email)
                   THEN UNCHANGED <<inflight, mailCalls>>
                   ELSE /\ inflight' = Append(inflight,
                               [req |-> RequestList[id],
                                mail |-> [to |-> email,
                                          name |-> San(id).name,
                                          role |-> San(id).role]])
                        /\ mailCalls' = Put(mailCalls, email,
                               IF email \in DOMAIN mailCalls
                               THEN mailCalls[email] + 1 ELSE 1)
           ELSE UNCHANGED <<emailAttempts, history, inflight, mailCalls>>
        /\ UNCHANGED <<now, env, ticks>>
        /\ UNCHANGED sliderVars

\* await transporter.sendMail(...) settles for the i-th waiting message: the
\* relay accepted it, or the call rejected and the catch block answers.
SendMailSettles(i, accepted) ==
    /\ i \in 1..Len(inflight)
    /\ inflight' = SubSeq(inflight, 1, i - 1)
                       \o SubSeq(inflight, i + 1, Len(inflight))
    /\ lastReq' = inflight[i].req
    /\ op' = IF accepted THEN "sent" ELSE "sendFailed"
    /\ lastResp' = IF accepted
                   THEN Response(200, TRUE, "", "Email sent successfully", "")
                   ELSE CaughtResponse("RelayError")
    /\ UNCHANGED <<emailAttempts, now, env, mailCalls, history, ticks>>
    /\ UNCHANGED sliderVars

\* Time passes on the endpoint's clock.
Tick(maxTicks) ==
    /\ ticks < maxTicks
    /\ \E d \in ClockSteps : now' = now + d
    /\ ticks' = ticks + 1
    /\ op' = "tick"
    /\ UNCHANGED <<emailAttempts, env, inflight, mailCalls, history,
                   lastReq, lastResp>>
    /\ UNCHANGED sliderVars

EmptyMap == [x \in {} |-> <<>>]

-----------------------------------------------------------------------------
(* Waitlist slider: data *)

Fields == {"name", "email", "phone", "category"}

EmptyForm == [name |-> <<>>, email |-> <<>>, phone |-> <<>>, category |-> ""]
NoErrors == [f \in Fields |-> ""]

sShortName == <<" ", "J">>
sPhone == <<"+", "9", "1", " ", "9", "8", "7", "6", "5", " ", "4", "3", "2", "1", "0">>
sBadPhone == <<"a", "b", "c">>

\* What the user types into the three inputs (each starts empty), and picks
\* in the dropdown.
NameInputs == {sShortName, sJo}
EmailInputs == {sNoAt, sJoAtX}
PhoneInputs == {sPhone}
Categories == {"artist", "customer"}

InputsOf(field) ==
    CASE field = "name" -> NameInputs
      [] field = "email" -> EmailInputs
      [] field = "phone" -> PhoneInputs

\* A value read from localStorage and parsed, or null.
Null == [kind |-> "null", name |-> <<>>, email |-> <<>>]
StoredRecord(name, email) == [kind |-> "record", name |-> name, email |-> email]

\* localStorage under the key: nothing, the JSON of a StoredWaitlistData, or
\* a text that is not JSON.
NoItem == [kind |-> "none", name |-> <<>>, email |-> <<>>]
Garbage == [kind |-> "garbage", name |-> <<>>, email |-> <<>>]

\* A text that is JSON of a truthy value without a string `name`: {}, 42, [].
Junk == [kind |-> "junk", name |-> <<>>, email |-> <<>>]
PriorRecord == StoredRecord(sJo, sAlAtX)

\* localStorage works; setItem throws (quota); getItem and setItem throw.
StorageModes == {"ok", "full", "denied"}

\* The browser the slider is mounted in: what the key holds and whether
\* localStorage works.
Browsers ==
    { <<NoItem, "ok">>, <<PriorRecord, "ok">>, <<Garbage, "ok">>,
      <<NoItem, "full">>, <<PriorRecord, "denied">>, <<Junk, "ok">> }

\* What fetch does: an HTTP response, or a rejection (network failure).
Http(status) == [kind |-> "http", status |-> status]
NetworkError == [kind |-> "reject", status |-> 0]
NoAnswer == [kind |-> "none", status |-> 0]
Answers == {Http(200), Http(299), Http(300), NetworkError}

\* No CRM call was answered in the last step.
NoCall == [answer |-> NoAnswer, ok |-> FALSE]

-----------------------------------------------------------------------------
(* Waitlist slider: helpers *)

\* getStoredSubmission that never finds the item.
getStoredSubmissionNeverFound == Null

\* getStoredSubmission: the parsed record, or null when there is no item,
\* when getItem throws or when JSON.parse throws.
getStoredSubmission ==
    IF storageMode = "denied" THEN Null
    ELSE IF storage.kind = "none" THEN Null
    ELSE IF storage.kind = "garbage" THEN Null
    ELSE storage

\* storeSubmission: does localStorage.setItem throw?
storeSubmissionThrows == storageMode # "ok"

\* Response.ok
ResOk(answer) == answer.status >= 200 /\ answer.status <= 299

\* submitToHubSpot without its try/catch: a rejected fetch is thrown on.
submitToHubSpotNoCatch(answer) ==
    IF answer.kind = "reject"
    THEN [threw |-> TRUE, value |-> FALSE]
    ELSE [threw |-> FALSE, value |-> ResOk(answer)]

\* submitToHubSpot, given what fetch does: the value returned, or an
\* exception thrown to the caller.
submitToHubSpot(answer) ==
    IF answer.kind = "reject"
    THEN [threw |-> FALSE, value |-> FALSE]
    ELSE [threw |-> FALSE, value |-> ResOk(answer)]

\* The body submitToHubSpot posts for a form.
HubSpotFields(data) ==
    [firstname |-> data.name, email |-> data.email, phone |-> data.phone,
     what_best_describes_you |->
         IF data.category = "artist" THEN "Artist"
         ELSE IF data.category = "customer" THEN "Customer" ELSE ""]

IsPhoneChar(c) ==
    c \in {"0", "1", "2", "3", "4", "5", "6", "7", "8", "9", "-", "(", ")"}
    \/ IsSpace(c)

\* /^\+?[\d\s\-()]{7,15}$/.test(s)
PhoneRegexTest(s) ==
    LET rest == IF s # <<>> /\ s[1] = "+" THEN Tail(s) ELSE s
    IN  /\ Len(rest) >= 7
        /\ Len(rest) <= 15
        /\ \A i \in 1..Len(rest) : IsPhoneChar(rest[i])

\* validate with the name's length taken without trim.
validateNoTrim(data) ==
    [name |->
        IF Trim(data.name) = <<>> THEN "Name is required"
        ELSE IF Len(data.name) < 2
        THEN "Name must be at least 2 characters"
        ELSE "",
     email |->
        IF Trim(data.email) = <<>> THEN "Email is required"
        ELSE IF ~EmailRegexTest(data.email) THEN "Enter a valid email address"
        ELSE "",
     phone |->
        IF Trim(data.phone) = <<>> THEN "Phone number is required"
        ELSE IF ~PhoneRegexTest(Trim(data.phone))
        THEN "Enter a valid phone number"
        ELSE "",
     category |->
        IF data.category = "" THEN "Please select a category" ELSE ""]

validate(data) ==
    [name |->
        IF Trim(data.name) = <<>> THEN "Name is required"
        ELSE IF Len(Trim(data.name)) < 2
        THEN "Name must be at least 2 characters"
        ELSE "",
     email |->
        IF Trim(data.email) = <<>> THEN "Email is required"
        ELSE IF ~EmailRegexTest(data.email) THEN "Enter a valid email address"
        ELSE "",
     phone |->
        IF Trim(data.phone) = <<>> THEN "Phone number is required"
        ELSE IF ~PhoneRegexTest(Trim(data.phone))
        THEN "Enter a valid phone number"
        ELSE "",
     category |->
        IF data.category = "" THEN "Please select a category" ELSE ""]

\* Object.keys(validationErrors).length > 0
HasErrors(errs) == \E f \in Fields : errs[f] # ""

\* The already-joined view evaluates alreadyJoined.name.split(' '), which
\* throws when the value has no string `name`.
RenderThrows(joined) == joined.kind = "junk"

\* The component is mounted: no render has thrown and React has not
\* unmounted it.
Mounted == uncaught # "render" /\ ~unmounted

\* formContent: the branch rendered.
ShowsAlreadyJoined == alreadyJoined # Null
ShowsSuccess == alreadyJoined = Null /\ isSuccess
ShowsForm == alreadyJoined = Null /\ ~isSuccess

\* The form is on screen, its inputs and buttons usable.
FormShown == Mounted /\ isOpen /\ ShowsForm

-----------------------------------------------------------------------------
(* Waitlist slider: events *)

\* The opening without the clearTimeout of the reset effect's cleanup.
OpenKeepsTimer ==
    /\ Mounted
    /\ ~isOpen
    /\ isOpen' = TRUE
    /\ alreadyJoined' = IF getStoredSubmission # Null
                        THEN getStoredSubmission ELSE alreadyJoined
    /\ uncaught' = IF RenderThrows(alreadyJoined') THEN "render" ELSE uncaught
    /\ IF RenderThrows(alreadyJoined')
       THEN /\ bodyOverflow' = ""
            /\ escListeners' = escListeners
            /\ unmounted' = TRUE
       ELSE /\ bodyOverflow' = "hidden"
            /\ escListeners' = escListeners + 1
            /\ UNCHANGED unmounted
    /\ op' = "open"
    /\ lastCall' = NoCall
    /\ UNCHANGED <<formData, errors, touched, isSubmitting, isSuccess,
                   categoryOpen, storage, storageMode, pending, posts,
                   blurTimers, resetTimer>>
    /\ UNCHANGED endpointVars

\* Navbar's openSlider, then the effects that depend on isOpen: the cache
\* is read, the page's scroll is locked, handleEsc is registered, the
\* pending reset timeout is cleared. A render that throws unmounts the
\* instance, and the cleanups of the effects run.
Open ==
    /\ Mounted
    /\ ~isOpen
    /\ isOpen' = TRUE
    /\ alreadyJoined' = IF getStoredSubmission # Null
                        THEN getStoredSubmission ELSE alreadyJoined
    /\ uncaught' = IF RenderThrows(alreadyJoined') THEN "render" ELSE uncaught
    /\ resetTimer' = FALSE
    /\ IF RenderThrows(alreadyJoined')
       THEN /\ bodyOverflow' = ""
            /\ escListeners' = escListeners
            /\ unmounted' = TRUE
       ELSE /\ bodyOverflow' = "hidden"
            /\ escListeners' = escListeners + 1
            /\ UNCHANGED unmounted
    /\ op' = "open"
    /\ lastCall' = NoCall
    /\ UNCHANGED <<formData, errors, touched, isSubmitting, isSuccess,
                   categoryOpen, storage, storageMode, pending, posts,
                   blurTimers>>
    /\ UNCHANGED endpointVars

\* onClose without the release of the scroll lock.
CloseKeepsScrollLock ==
    /\ Mounted
    /\ isOpen
    /\ isOpen' = FALSE
    /\ resetTimer' = TRUE
    /\ escListeners' = escListeners - 1
    /\ op' = "close"
    /\ lastCall' = NoCall
    /\ UNCHANGED <<formData, errors, touched, isSubmitting, isSuccess,
                   categoryOpen, alreadyJoined, storage, storageMode, pending,
                   posts, uncaught, bodyOverflow, unmounted, blurTimers>>
    /\ UNCHANGED endpointVars

\* onClose (the close button, the backdrop, "Got it", "Done"), then the
\* effects that depend on isOpen: the scroll lock is released, handleEsc is
\* removed, the 400 ms reset timeout is started.
Close ==
    /\ Mounted
    /\ isOpen
    /\ isOpen' = FALSE
    /\ resetTimer' = TRUE
    /\ bodyOverflow' = ""
    /\ escListeners' = escListeners - 1
    /\ op' = "close"
    /\ lastCall' = NoCall
    /\ UNCHANGED <<formData, errors, touched, isSubmitting, isSuccess,
                   categoryOpen, alreadyJoined, storage, storageMode, pending,
                   posts, uncaught, unmounted, blurTimers>>
    /\ UNCHANGED endpointVars

\* A keydown of Escape: every handleEsc registered on window calls onClose,
\* and the effects that depend on isOpen run as for any close.
PressEscape ==
    /\ escListeners > 0
    /\ isOpen' = FALSE
    /\ IF isOpen
       THEN /\ resetTimer' = TRUE
            /\ bodyOverflow' = ""
            /\ escListeners' = escListeners - 1
       ELSE UNCHANGED <<resetTimer, bodyOverflow, escListeners>>
    /\ op' = "escape"
    /\ lastCall' = NoCall
    /\ UNCHANGED <<formData, errors, touched, isSubmitting, isSuccess,
                   categoryOpen, alreadyJoined, storage, storageMode, pending,
                   posts, uncaught, unmounted, blurTimers>>
    /\ UNCHANGED endpointVars

\* React unmounts the instance: the cleanups of the effects run. The state
\* is dropped; a CRM call and the timeouts of the dropdown stay pending.
Unmount ==
    /\ Mounted
    /\ unmounted' = TRUE
    /\ bodyOverflow' = ""
    /\ escListeners' = IF isOpen THEN escListeners - 1 ELSE escListeners
    /\ resetTimer' = FALSE
    /\ op' = "unmount"
    /\ lastCall' = NoCall
    /\ UNCHANGED <<isOpen, formData, errors, touched, isSubmitting, isSuccess,
                   categoryOpen, alreadyJoined, storage, storageMode, pending,
                   posts, uncaught, blurTimers>>
    /\ UNCHANGED endpointVars

\* The reset timeout with a setIsSubmitting(false) besides.
ResetTimeoutClearsSubmitting ==
    /\ Mounted
    /\ resetTimer
    /\ resetTimer' = FALSE
    /\ formData' = EmptyForm
    /\ errors' = NoErrors
    /\ touched' = {}
    /\ isSubmitting' = FALSE
    /\ isSuccess' = FALSE
    /\ categoryOpen' = FALSE
    /\ alreadyJoined' = Null
    /\ op' = "reset"
    /\ lastCall' = NoCall
    /\ UNCHANGED <<isOpen, storage, storageMode, pending, posts, uncaught>>
    /\ UNCHANGED domVars
    /\ UNCHANGED endpointVars

\* The reset timeout without setTouched({}).
ResetTimeoutKeepsTouched ==
    /\ Mounted
    /\ resetTimer
    /\ resetTimer' = FALSE
    /\ formData' = EmptyForm
    /\ errors' = NoErrors
    /\ isSuccess' = FALSE
    /\ categoryOpen' = FALSE
    /\ alreadyJoined' = Null
    /\ op' = "reset"
    /\ lastCall' = NoCall
    /\ UNCHANGED <<isOpen, touched, isSubmitting, storage, storageMode,
                   pending, posts, uncaught>>
    /\ UNCHANGED domVars
    /\ UNCHANGED endpointVars

\* The reset timeout with a removeItem of the cache added.
ResetTimeoutClearsCache ==
    /\ Mounted
    /\ resetTimer
    /\ resetTimer' = FALSE
    /\ formData' = EmptyForm
    /\ errors' = NoErrors
    /\ touched' = {}
    /\ isSuccess' = FALSE
    /\ categoryOpen' = FALSE
    /\ alreadyJoined' = Null
    /\ storage' = NoItem
    /\ op' = "reset"
    /\ lastCall' = NoCall
    /\ UNCHANGED <<isOpen, isSubmitting, storageMode, pending, posts,
                   uncaught>>
    /\ UNCHANGED domVars
    /\ UNCHANGED endpointVars

\* The reset timeout fires, 400 ms after the slider closed.
ResetTimeout ==
    /\ Mounted
    /\ resetTimer
    /\ resetTimer' = FALSE
    /\ formData' = EmptyForm
    /\ errors' = NoErrors
    /\ touched' = {}
    /\ isSuccess' = FALSE
    /\ categoryOpen' = FALSE
    /\ alreadyJoined' = Null
    /\ op' = "reset"
    /\ lastCall' = NoCall
    /\ UNCHANGED <<isOpen, isSubmitting, storage, storageMode, pending, posts,
                   uncaught>>
    /\ UNCHANGED domVars
    /\ UNCHANGED endpointVars

\* The state handleChange(field, value) leaves in formData and errors.
ChangedForm(field, value) == [formData EXCEPT ![field] = value]
ChangedErrors(field, value) ==
    IF field \in touched
    THEN [errors EXCEPT ![field] = validate(ChangedForm(field, value))[field]]
    ELSE errors

handleChange(field, value) ==
    /\ FormShown
    /\ formData' = ChangedForm(field, value)
    /\ errors' = ChangedErrors(field, value)
    /\ op' = "edit"
    /\ lastCall' = NoCall
    /\ UNCHANGED <<isOpen, touched, isSubmitting, isSuccess, categoryOpen,
                   alreadyJoined, storage, storageMode, resetTimer, pending,
                   posts, uncaught>>
    /\ UNCHANGED domVars
    /\ UNCHANGED endpointVars

\* handleBlur that sets the errors of every field.
handleBlurValidatesAll(field) ==
    /\ FormShown
    /\ touched' = touched \cup {field}
    /\ errors' = validate(formData)
    /\ op' = "edit"
    /\ lastCall' = NoCall
    /\ UNCHANGED <<isOpen, formData, isSubmitting, isSuccess, categoryOpen,
                   alreadyJoined, storage, storageMode, resetTimer, pending,
                   posts, uncaught>>
    /\ UNCHANGED domVars
    /\ UNCHANGED endpointVars

handleBlur(field) ==
    /\ FormShown
    /\ touched' = touched \cup {field}
    /\ errors' = [errors EXCEPT ![field] = validate(formData)[field]]
    /\ op' = "edit"
    /\ lastCall' = NoCall
    /\ UNCHANGED <<isOpen, formData, isSubmitting, isSuccess, categoryOpen,
                   alreadyJoined, storage, storageMode, resetTimer, pending,
                   posts, uncaught>>
    /\ UNCHANGED domVars
    /\ UNCHANGED endpointVars

\* The category button's onBlur: a 150 ms timeout is started whose callback
\* holds the handleBlur, and with it the formData, of this render.
categoryBlur ==
    /\ FormShown
    /\ Len(blurTimers) < MaxBlurTimers
    /\ blurTimers' = Append(blurTimers, [formData |-> formData])
    /\ op' = "edit"
    /\ lastCall' = NoCall
    /\ UNCHANGED <<isOpen, formData, errors, touched, isSubmitting, isSuccess,
                   categoryOpen, alreadyJoined, storage, storageMode,
                   resetTimer, pending, posts, uncaught, bodyOverflow,
                   escListeners, unmounted>>
    /\ UNCHANGED endpointVars

\* The oldest of these timeouts fires: setCategoryOpen(false), then the
\* handleBlur('category') it holds. The state setters of an unmounted
\* instance do nothing.
categoryBlurTimeout ==
    /\ blurTimers # <<>>
    /\ blurTimers' = Tail(blurTimers)
    /\ IF Mounted
       THEN /\ categoryOpen' = FALSE
            /\ touched' = touched \cup {"category"}
            /\ errors' = [errors EXCEPT !["category"] =
                              validate(blurTimers[1].formData)["category"]]
       ELSE UNCHANGED <<categoryOpen, touched, errors>>
    /\ op' = "blurTimeout"
    /\ lastCall' = NoCall
    /\ UNCHANGED <<isOpen, formData, isSubmitting, isSuccess, alreadyJoined,
                   storage, storageMode, resetTimer, pending, posts, uncaught,
                   bodyOverflow, escListeners, unmounted>>
    /\ UNCHANGED endpointVars

\* The category button's onClick.
ToggleCategory ==
    /\ FormShown
    /\ categoryOpen' = ~categoryOpen
    /\ op' = "edit"
    /\ lastCall' = NoCall
    /\ UNCHANGED <<isOpen, formData, errors, touched, isSubmitting, isSuccess,
                   alreadyJoined, storage, storageMode, resetTimer, pending,
                   posts, uncaught>>
    /\ UNCHANGED domVars
    /\ UNCHANGED endpointVars

selectCategory(cat) ==
    /\ FormShown
    /\ categoryOpen
    /\ formData' = ChangedForm("category", cat)
    /\ errors' = ChangedErrors("category", cat)
    /\ categoryOpen' = FALSE
    /\ touched' = touched \cup {"category"}
    /\ op' = "edit"
    /\ lastCall' = NoCall
    /\ UNCHANGED <<isOpen, isSubmitting, isSuccess, alreadyJoined, storage,
                   storageMode, resetTimer, pending, posts, uncaught>>
    /\ UNCHANGED domVars
    /\ UNCHANGED endpointVars

\* handleSubmit behind a submit button that is never disabled.
handleSubmitNotDisabled ==
    /\ FormShown
    /\ ~HasErrors(validate(formData)) => posts < MaxSubmits
    /\ touched' = Fields
    /\ errors' = validate(formData)
    /\ IF HasErrors(validate(formData))
       THEN UNCHANGED <<isSubmitting, pending, posts>>
       ELSE /\ isSubmitting' = TRUE
            /\ pending' = Append(pending, [data |-> formData])
            /\ posts' = posts + 1
    /\ op' = "submit"
    /\ lastCall' = NoCall
    /\ UNCHANGED <<isOpen, formData, isSuccess, categoryOpen, alreadyJoined,
                   storage, storageMode, resetTimer, uncaught>>
    /\ UNCHANGED domVars
    /\ UNCHANGED endpointVars

\* handleSubmit without the early return of line 250: the CRM call is
\* started whatever validate returns.
handleSubmitNoValidation ==
    /\ FormShown
    /\ ~isSubmitting
    /\ posts < MaxSubmits
    /\ touched' = Fields
    /\ errors' = validate(formData)
    /\ isSubmitting' = TRUE
    /\ pending' = Append(pending, [data |-> formData])
    /\ posts' = posts + 1
    /\ op' = "submit"
    /\ lastCall' = NoCall
    /\ UNCHANGED <<isOpen, formData, isSuccess, categoryOpen, alreadyJoined,
                   storage, storageMode, resetTimer, uncaught>>
    /\ UNCHANGED domVars
    /\ UNCHANGED endpointVars

\* handleSubmit up to its await: every field touched, the form validated,
\* and, without errors, the CRM call started. The submit button is disabled
\* while isSubmitting.
handleSubmit ==
    /\ FormShown
    /\ ~isSubmitting
    /\ ~HasErrors(validate(formData)) => posts < MaxSubmits
    /\ touched' = Fields
    /\ errors' = validate(formData)
    /\ IF HasErrors(validate(formData))
       THEN UNCHANGED <<isSubmitting, pending, posts>>
       ELSE /\ isSubmitting' = TRUE
            /\ pending' = Append(pending, [data |-> formData])
            /\ posts' = posts + 1
    /\ op' = "submit"
    /\ lastCall' = NoCall
    /\ UNCHANGED <<isOpen, formData, isSuccess, categoryOpen, alreadyJoined,
                   storage, storageMode, resetTimer, uncaught>>
    /\ UNCHANGED domVars
    /\ UNCHANGED endpointVars

\* The rest of handleSubmit, storing the form as it is when the call
\* settles.
FetchSettlesStoresCurrent(i, answer) ==
    LET res == submitToHubSpot(answer)
    IN  /\ i \in 1..Len(pending)
        /\ pending' = SubSeq(pending, 1, i - 1)
                          \o SubSeq(pending, i + 1, Len(pending))
        /\ op' = "settle"
        /\ isSubmitting' = FALSE
        /\ lastCall' = [answer |-> answer, ok |-> res.value]
        /\ IF storeSubmissionThrows
           THEN /\ uncaught' = "storeSubmission"
                /\ UNCHANGED <<storage, isSuccess>>
           ELSE /\ storage' = StoredRecord(formData.name, formData.email)
                /\ isSuccess' = TRUE
                /\ UNCHANGED uncaught
        /\ UNCHANGED <<isOpen, formData, errors, touched, categoryOpen,
                       alreadyJoined, storageMode, resetTimer, posts>>
        /\ UNCHANGED domVars
        /\ UNCHANGED endpointVars

\* The rest of handleSubmit with setIsSuccess(true) ahead of
\* storeSubmission.
FetchSettlesSuccessFirst(i, answer) ==
    LET data == pending[i].data
        res == submitToHubSpot(answer)
    IN  /\ i \in 1..Len(pending)
        /\ pending' = SubSeq(pending, 1, i - 1)
                          \o SubSeq(pending, i + 1, Len(pending))
        /\ op' = "settle"
        /\ isSubmitting' = FALSE
        /\ isSuccess' = TRUE
        /\ lastCall' = [answer |-> answer, ok |-> res.value]
        /\ IF storeSubmissionThrows
           THEN /\ uncaught' = "storeSubmission"
                /\ UNCHANGED storage
           ELSE /\ storage' = StoredRecord(data.name, data.email)
                /\ UNCHANGED uncaught
        /\ UNCHANGED <<isOpen, formData, errors, touched, categoryOpen,
                       alreadyJoined, storageMode, resetTimer, posts>>
        /\ UNCHANGED domVars
        /\ UNCHANGED endpointVars

\* The rest of handleSubmit without setIsSubmitting(false).
FetchSettlesKeepsSubmitting(i, answer) ==
    LET data == pending[i].data
        res == submitToHubSpot(answer)
    IN  /\ i \in 1..Len(pending)
        /\ ~storeSubmissionThrows
        /\ pending' = SubSeq(pending, 1, i - 1)
                          \o SubSeq(pending, i + 1, Len(pending))
        /\ op' = "settle"
        /\ lastCall' = [answer |-> answer, ok |-> res.value]
        /\ storage' = StoredRecord(data.name, data.email)
        /\ isSuccess' = TRUE
        /\ UNCHANGED <<isOpen, formData, errors, touched, isSubmitting,
                       categoryOpen, alreadyJoined, storageMode, resetTimer,
                       posts, uncaught>>
        /\ UNCHANGED domVars
        /\ UNCHANGED endpointVars

\* The rest of handleSubmit, once the fetch of the i-th waiting call is
\* answered: setIsSubmitting(false), storeSubmission, setIsSuccess(true).
FetchSettles(i, answer) ==
    LET data == pending[i].data
        res == submitToHubSpot(answer)
    IN  /\ i \in 1..Len(pending)
        /\ pending' = SubSeq(pending, 1, i - 1)
                          \o SubSeq(pending, i + 1, Len(pending))
        /\ op' = "settle"
        /\ IF res.threw
           THEN /\ uncaught' = "submitToHubSpot"
                /\ lastCall' = NoCall
                /\ UNCHANGED <<isSubmitting, storage, isSuccess>>
           ELSE /\ isSubmitting' = FALSE
                /\ lastCall' = [answer |-> answer, ok |-> res.value]
                /\ IF storeSubmissionThrows
                   THEN /\ uncaught' = "storeSubmission"
                        /\ UNCHANGED <<storage, isSuccess>>
                   ELSE /\ storage' = StoredRecord(data.name, data.email)
                        /\ isSuccess' = TRUE
                        /\ UNCHANGED uncaught
        /\ UNCHANGED <<isOpen, formData, errors, touched, categoryOpen,
                       alreadyJoined, storageMode, resetTimer, posts>>
        /\ UNCHANGED domVars
        /\ UNCHANGED endpointVars

\* The slider as mounted by Navbar: closed, the reset timeout of the first
\* render pending.
SliderIdle ==
    /\ isOpen = FALSE
    /\ formData = EmptyForm
    /\ errors = NoErrors
    /\ touched = {}
    /\ isSubmitting = FALSE
    /\ isSuccess = FALSE
    /\ categoryOpen = FALSE
    /\ alreadyJoined = Null
    /\ storage = NoItem
    /\ storageMode = "ok"
    /\ resetTimer = TRUE
    /\ pending = <<>>
    /\ posts = 0
    /\ lastCall = NoCall
    /\ uncaught = ""
    /\ bodyOverflow = ""
    /\ escListeners = 0
    /\ unmounted = FALSE
    /\ blurTimers = <<>>

\* An endpoint process that has served nothing.
EndpointIdle ==
    /\ emailAttempts = [x \in {} |-> <<>>]
    /\ now = 0
    /\ env = [SMTP_USER |-> TRUE, SMTP_PASS |-> TRUE, NODE_ENV |-> "production"]
    /\ inflight = <<>>
    /\ mailCalls = [x \in {} |-> <<>>]
    /\ history = [x \in {} |-> <<>>]
    /\ ticks = 0
    /\ lastReq = [method |-> "", body |-> NoBody]
    /\ lastResp = EmptyResponse(0)

\* The slider mounted in a browser whose localStorage holds anything.
InitSlider ==
    /\ EndpointIdle
    /\ isOpen = FALSE
    /\ formData = EmptyForm
    /\ errors = NoErrors
    /\ touched = {}
    /\ isSubmitting = FALSE
    /\ isSuccess = FALSE
    /\ categoryOpen = FALSE
    /\ alreadyJoined = Null
    /\ \E b \in Browsers : storage = b[1] /\ storageMode = b[2]
    /\ resetTimer = TRUE
    /\ pending = <<>>
    /\ posts = 0
    /\ lastCall = NoCall
    /\ uncaught = ""
    /\ bodyOverflow = ""
    /\ escListeners = 0
    /\ unmounted = FALSE
    /\ blurTimers = <<>>
    /\ op = "init"

Change == \E field \in Fields \ {"category"} :
              \E value \in InputsOf(field) : handleChange(field, value)
Blur == \E field \in Fields \ {"category"} : handleBlur(field)
Select == \E cat \in Categories : selectCategory(cat)
Settle == \E i \in 1..MaxSubmits, answer \in Answers : FetchSettles(i, answer)

NextSlider ==
    \/ Open
    \/ Close
    \/ ResetTimeout
    \/ Change
    \/ Blur
    \/ ToggleCategory
    \/ Select
    \/ handleSubmit
    \/ Settle

SpecSlider == InitSlider /\ [][NextSlider]_vars

\* The form filled in and submitted, with more to type: names that are
\* blank, one character and two or more characters long, padded or not.
ValidateNames ==
    { <<>>, <<" ">>, <<" ", "\t">>, <<"J">>, sShortName, <<"J", " ">>,
      <<" ", "J", " ", "\n">>, sJo, <<" ", "J", "o", " ">>, <<"J", " ", "o">>,
      <<"J", "o", "e">> }
ValidateEmails == {<<>>, sNoAt, sJoAtX}
ValidatePhones == {<<>>, sBadPhone, sPhone}

ValidateInputsOf(field) ==
    CASE field = "name" -> ValidateNames
      [] field = "email" -> ValidateEmails
      [] field = "phone" -> ValidatePhones

InitValidate == InitSlider /\ storage = NoItem /\ storageMode = "ok"

ValidateChange == \E field \in Fields \ {"category"} :
                      \E value \in ValidateInputsOf(field) :
                          handleChange(field, value)

NextValidate ==
    \/ Open
    \/ ValidateChange
    \/ ToggleCategory
    \/ Select
    \/ handleSubmit

SpecValidate == InitValidate /\ [][NextValidate]_vars

\* A fresh endpoint process: an empty ledger, any configuration.
InitEndpoint ==
    /\ SliderIdle
    /\ emailAttempts = EmptyMap
    /\ now = 0
    /\ env \in Envs
    /\ inflight = <<>>
    /\ mailCalls = EmptyMap
    /\ history = EmptyMap
    /\ ticks = 0
    /\ lastReq = [method |-> "", body |-> NoBody]
    /\ lastResp = EmptyResponse(0)
    /\ op = "init"

\* The requests of the endpoint specification, and those made to exercise
\* sanitizeInput.
SanitizeIds == {id \in RequestIds : RequestList[id].body \in SanitizeBodies}
EndpointIds == RequestIds \ SanitizeIds

Handler == \E id \in EndpointIds : HandlerStart(id, GateChecks, GateInFlight)
SendMail == \E i \in 1..MaxInFlight, accepted \in BOOLEAN : SendMailSettles(i, accepted)
Clock == Tick(GateTicks)

NextEndpoint == Handler \/ SendMail \/ Clock

\* The endpoint under every request of Requests.
SpecEndpoint == InitEndpoint /\ [][NextEndpoint]_vars

\* The requests that reach the rate limiter.
LimiterIds == {id \in RequestIds : RequestList[id].body \in ValidBodies
                                    /\ RequestList[id].method = "POST"}

InitLimiter == InitEndpoint /\ env.SMTP_USER /\ env.SMTP_PASS

LimiterHandler == \E id \in LimiterIds : HandlerStart(id, MaxChecks, MaxInFlight)
LimiterClock == Tick(MaxTicks)

NextLimiter == LimiterHandler \/ SendMail \/ LimiterClock

\* The endpoint under requests that pass the gates, explored deeper.
SpecLimiter == InitLimiter /\ [][NextLimiter]_vars

\* The endpoint, configured, serving the requests that sanitizeInput changes.
InitSanitize == InitLimiter

SanitizeHandler ==
    \E id \in SanitizeIds : HandlerStart(id, GateChecks, GateInFlight)

NextSanitize == SanitizeHandler \/ SendMail \/ Clock

SpecSanitize == InitSanitize /\ [][NextSanitize]_vars

\* One process serving concurrent requests for one address: a request is
\* taken up while others are still awaiting the relay. Requests keep
\* arriving and the relay answers every call.
SameAddressIds == {id \in LimiterIds : San(id).email = sJoAtX}

InitConcurrent == InitLimiter /\ env.NODE_ENV = "production"

ConcurrentHandler ==
    \E id \in SameAddressIds :
        HandlerStart(id, ConcurrentChecks, ConcurrentInFlight)

ConcurrentSendMail ==
    \E i \in 1..ConcurrentInFlight, accepted \in BOOLEAN :
        SendMailSettles(i, accepted)

NextConcurrent == ConcurrentHandler \/ ConcurrentSendMail \/ Clock

SpecConcurrent ==
    /\ InitConcurrent
    /\ [][NextConcurrent]_vars
    /\ WF_vars(ConcurrentHandler)
    /\ WF_vars(ConcurrentSendMail)


\* The slider opened, closed by its buttons or by Escape, reset and
\* unmounted, its inputs typed in and left.
NextEffects ==
    \/ Open
    \/ Close
    \/ PressEscape
    \/ Unmount
    \/ ResetTimeout
    \/ Change
    \/ Blur

SpecEffects == InitSlider /\ [][NextEffects]_vars


\* The slider when every CRM call is answered in the end: fetch settles,
\* with a response or a rejection.
SpecSubmitting == InitSlider /\ [][NextSlider]_vars /\ WF_vars(Settle)


\* The reset timeout of 400 ms fires after every 150 ms timeout of the
\* dropdown: the button loses focus only while the form is open, before the
\* close that starts the reset timeout.
DropdownReset == blurTimers = <<>> /\ ResetTimeout

\* The name and the email are typed; the phone is left empty, so that
\* every submit attempt ends at the validation.
DropdownChange == \E field \in {"name", "email"} :
                      \E value \in InputsOf(field) : handleChange(field, value)

\* The slider with the focus leaving the category button.
NextDropdown ==
    \/ Open
    \/ Close
    \/ DropdownReset
    \/ DropdownChange
    \/ Blur
    \/ ToggleCategory
    \/ categoryBlur
    \/ categoryBlurTimeout
    \/ Select
    \/ handleSubmit

SpecDropdown == InitValidate /\ [][NextDropdown]_vars

-----------------------------------------------------------------------------
(* Claims about the e-mail endpoint *)

\* The allowed (recorded) attempts of address a whose timestamps lie in the
\* window that ends at instant t, counted from the history of checks.
RecordedInWindow(a, t) ==
    Cardinality({k \in 1..Len(history[a]) :
                    /\ ~history[a][k].limited
                    /\ history[a][k].t <= t
                    /\ t - history[a][k].t < WINDOW_MS})

\* Every earlier check of a had left the window when check i was made.
FreshStart(a, i) ==
    \A j \in 1..(i - 1) : history[a][i].t - history[a][j].t >= WINDOW_MS

\* C1: for any one address, of the checks that all fall within one window
\* (counted from a check made when every earlier attempt had expired) the
\* 1st, 2nd and 3rd are allowed and the 4th is rate-limited; a check made
\* 3,600,000 ms or more after every recorded attempt is allowed again.
C1_WindowVerdicts ==
    \A a \in DOMAIN history :
        \A i \in 1..Len(history[a]) : \A k \in i..Len(history[a]) :
            (FreshStart(a, i) /\ history[a][k].t - history[a][i].t < WINDOW_MS)
            => /\ (k - i < 3 => ~history[a][k].limited)
               /\ (k - i = 3 => history[a][k].limited)

\* Four checks of one address within one window, the 4th rejected, and a
\* 5th after the window has passed, allowed.
C1_Witness ==
    \E a \in DOMAIN history :
        /\ Len(history[a]) = 5
        /\ history[a][4].t - history[a][1].t < WINDOW_MS
        /\ history[a][4].limited
        /\ history[a][5].t - history[a][3].t > WINDOW_MS
        /\ ~history[a][5].limited

\* C2: for every address and every instant, at most 3 allowed attempts have
\* their timestamps in the trailing 3,600,000 ms window (the count can only
\* peak at the instant of an attempt, or now).
C2_AtMostThreePerWindow ==
    \A a \in DOMAIN history :
        \A t \in {now} \cup {history[a][k].t : k \in 1..Len(history[a])} :
            RecordedInWindow(a, t) <= MAX_PER_WINDOW

\* An address with three attempts in the current window and a rejected
\* check, while another address is still served.
C2_Witness ==
    \E a, b \in DOMAIN history :
        /\ a # b
        /\ RecordedInWindow(a, now) = MAX_PER_WINDOW
        /\ \E k \in 1..Len(history[a]) : history[a][k].limited
        /\ RecordedInWindow(b, now) = 1

\* The request's fields, as the claims read them (from its strings).
AllStrings(body) ==
    body.present /\ \A x \in {body.name, body.email, body.role} : x.k = "str"
StringsOrAbsent(body) ==
    \A x \in {body.name, body.email, body.role} : x.k \in {"str", "undefined"}
\* The text trimmed, then without '<' and '>', then cut to 500 characters.
TrimStripTruncate(s) == Substring0(StripTags(Trim(s)), 500)
NameOk(body) ==
    LET n == Len(TrimStripTruncate(body.name.v))
    IN  n >= 2 /\ n <= 100
AddressOf(body) == ToLowerCase(TrimStripTruncate(body.email.v))
EmailOk(body) == EmailRegexTest(AddressOf(body))
RoleOk(body) == TrimStripTruncate(body.role.v) \in {sArtist, sCustomer}
CredentialsSet == env.SMTP_USER /\ env.SMTP_PASS
CallsTo(m, a) == IF a \in DOMAIN m THEN m[a] ELSE 0

\* The step dispatched nothing and left the ledger alone.
NoSideEffect ==
    /\ emailAttempts' = emailAttempts
    /\ mailCalls' = mailCalls
    /\ inflight' = inflight

\* C3: a POST with a valid name, e-mail and role, credentials configured and
\* the address not rate-limited, makes exactly one sendMail call, to the
\* sanitized address, and is answered 200 {success: true} when the relay
\* accepts; the same request with another role is answered 400 and a
\* request that is neither POST nor OPTIONS 405, both without a sendMail call.
C3_EndpointContract ==
    [][/\ (op' = "handler" /\ lastReq'.method = "POST"
            /\ AllStrings(lastReq'.body) /\ CredentialsSet
            /\ NameOk(lastReq'.body) /\ EmailOk(lastReq'.body))
          => LET body == lastReq'.body
                 a == AddressOf(body)
             IN  /\ (RoleOk(body) /\ (a \in DOMAIN history =>
                                        RecordedInWindow(a, now) < 3))
                    => /\ lastResp' = Awaiting
                       /\ Len(inflight') = Len(inflight) + 1
                       /\ inflight'[Len(inflight')].mail.to = a
                       /\ inflight'[Len(inflight')].req = lastReq'
                       /\ CallsTo(mailCalls', a) = CallsTo(mailCalls, a) + 1
                       /\ \A b \in DOMAIN mailCalls' :
                              b # a => CallsTo(mailCalls', b) = CallsTo(mailCalls, b)
                 /\ ~RoleOk(body)
                    => lastResp'.status = 400 /\ NoSideEffect
       /\ (op' = "sent")
          => /\ lastResp'.status = 200 /\ lastResp'.success
             /\ \E i \in 1..Len(inflight) : inflight[i].req = lastReq'
             /\ Len(inflight') = Len(inflight) - 1
             /\ mailCalls' = mailCalls
       /\ (op' = "handler" /\ lastReq'.method \notin {"POST", "OPTIONS"})
          => lastResp'.status = 405 /\ NoSideEffect
      ]_vars

\* The relay accepted the one message of a valid request: 200, success.
C3_Witness ==
    /\ op = "sent"
    /\ lastResp.status = 200
    /\ lastResp.success
    /\ inflight = <<>>
    /\ mailCalls = (AddressOf(lastReq.body) :> 1)

\* The gate the claim's order makes answer first, for a request whose
\* fields are strings or absent.
C4_FirstGate(req) ==
    LET body == req.body
    IN  IF req.method = "OPTIONS" THEN "preflight"
        ELSE IF req.method # "POST" THEN "method"
        ELSE IF ~CredentialsSet THEN "credentials"
        ELSE IF \E x \in {body.name, body.email, body.role} : Falsy(x)
        THEN "missing"
        ELSE IF ~EmailOk(body) THEN "email"
        ELSE IF ~RoleOk(body) THEN "role"
        ELSE IF ~NameOk(body) THEN "name"
        ELSE IF AddressOf(body) \in DOMAIN history
                /\ RecordedInWindow(AddressOf(body), now) >= 3
        THEN "ratelimit"
        ELSE "none"

C4_StatusOf(gate) ==
    CASE gate = "preflight" -> 200
      [] gate = "method" -> 405
      [] gate = "credentials" -> 500
      [] gate \in {"missing", "email", "role", "name"} -> 400
      [] gate = "ratelimit" -> 429
      [] gate = "none" -> 0

C4_ErrorOf(gate) ==
    CASE gate = "preflight" -> ""
      [] gate = "method" -> "Method not allowed"
      [] gate = "credentials" -> "Server configuration error"
      [] gate = "missing" -> "Missing required fields"
      [] gate = "email" -> "Invalid email format"
      [] gate = "role" -> "Invalid role"
      [] gate = "name" -> "Invalid name length"
      [] gate = "ratelimit" -> "Too many requests. Please try again later."
      [] gate = "none" -> ""

\* C4: the gates are evaluated in the order method, credentials, fields
\* present, e-mail shape, role, name length, rate limit; the response is
\* that of the first failing gate (OPTIONS: 200 without a body), and a
\* request a gate rejects updates no ledger and dispatches no mail.
C4_GateOrder ==
    [][(op' = "handler" /\ StringsOrAbsent(lastReq'.body))
       => LET gate == C4_FirstGate(lastReq')
          IN  /\ lastResp'.status = C4_StatusOf(gate)
              /\ lastResp'.error = C4_ErrorOf(gate)
              /\ (gate = "preflight") => ~lastResp'.json
              /\ (gate # "none") => NoSideEffect
      ]_vars

-----------------------------------------------------------------------------
(* Waitlist slider: properties *)

\* The form passes validate.
ValidForm == ~HasErrors(validate(formData))

\* The cache record storeSubmission writes for a submitted form.
RecordOf(data) == StoredRecord(data.name, data.email)

\* The initial Form state of the controller.
InitialForm ==
    /\ formData = EmptyForm
    /\ errors = NoErrors
    /\ touched = {}
    /\ ~isSuccess
    /\ alreadyJoined = Null
    /\ ~isSubmitting

\* C5: submitting a form without validation errors enters Submitting, and
\* when the CRM call settles, with true or with false, the controller leaves
\* Submitting, the cache holds the submitted name and email, and Success is
\* shown.
C5_ValidSubmitReachesSuccess ==
    [][ /\ (op' = "submit" /\ ValidForm) => (ShowsForm' /\ isSubmitting')
        /\ (op' = "settle") =>
              /\ ~isSubmitting'
              /\ ShowsSuccess'
              /\ \E i \in DOMAIN pending : storage' = RecordOf(pending[i].data)
      ]_vars

\* C6: an open that finds a readable record in the cache shows AlreadyJoined
\* with that record, not Form; while AlreadyJoined is shown no CRM call is
\* started and the state is kept until the slider closes; an open that finds
\* no item shows Form.
C6_OpenReadsCache ==
    [][ /\ (op' = "open" /\ storage.kind = "record" /\ storageMode = "ok") =>
              (alreadyJoined' = storage /\ ShowsAlreadyJoined' /\ ~ShowsForm')
        /\ (op' = "open" /\ storage.kind = "none") => ShowsForm'
        /\ (isOpen /\ ShowsAlreadyJoined) =>
              /\ posts' = posts
              /\ pending' = pending
              /\ isOpen' => alreadyJoined' = alreadyJoined
      ]_vars

\* The slider was opened on a record written by an earlier submission.
C6_Witness ==
    /\ op = "open"
    /\ isOpen
    /\ alreadyJoined = StoredRecord(sJo, sJoAtX)
    /\ posts = 1

\* C7: a submit of a form with a validation error stays in Form with every
\* field touched and the errors of validate; Submitting is not entered, no
\* CRM call is started and the cache is not written.
C7_InvalidSubmitStaysInForm ==
    [][ (op' = "submit" /\ ~ValidForm) =>
            /\ ShowsForm'
            /\ touched' = Fields
            /\ errors' = validate(formData)
            /\ ~isSubmitting'
            /\ posts' = posts
            /\ pending' = pending
            /\ storage' = storage
            /\ formData' = formData
      ]_vars

\* A form with a malformed email was submitted.
C7_Witness ==
    /\ op = "submit"
    /\ formData.name = sJo
    /\ formData.email = sNoAt
    /\ errors.email = "Enter a valid email address"
    /\ errors.name = ""
    /\ touched = Fields
    /\ ~isSubmitting
    /\ posts = 0

\* C8 as stated: when the reset timeout fires the slider is hidden and the
\* controller is in the initial Form state, Submitting included.
C8_ResetToInitialForm ==
    [][ (op' = "close" => ~isOpen')
        /\ (op' = "reset" => (~isOpen' /\ InitialForm')) ]_vars

\* C8: a close hides the slider and starts the reset timeout; when the
\* timeout fires the slider is still hidden, the fields are empty, there are
\* no errors and no touched fields, neither Success nor AlreadyJoined is
\* set, and the Submitting flag is left as it was: it is clear exactly when
\* no CRM call is waiting for its answer.
C8_ResetKeepsSubmitting ==
    [][ /\ (op' = "close") => (~isOpen' /\ resetTimer')
        /\ (op' = "reset") =>
              /\ ~isOpen'
              /\ formData' = EmptyForm
              /\ errors' = NoErrors
              /\ touched' = {}
              /\ ~isSuccess'
              /\ alreadyJoined' = Null
              /\ isSubmitting' = isSubmitting
              /\ isSubmitting' = (pending # <<>>)
              /\ (pending = <<>>) => InitialForm'
      ]_vars

\* The reset fired while a CRM call was waiting for its answer.
C8_Witness ==
    /\ op = "reset"
    /\ ~isOpen
    /\ formData = EmptyForm
    /\ touched = {}
    /\ isSubmitting
    /\ pending # <<>>

\* C9: exactly one of AlreadyJoined, Success and Form is shown, and the
\* Submitting flag is set only while Form is the one shown.
C9_DisplayStatesExclusive ==
    /\ \/ (ShowsAlreadyJoined /\ ~ShowsSuccess /\ ~ShowsForm)
       \/ (~ShowsAlreadyJoined /\ ShowsSuccess /\ ~ShowsForm)
       \/ (~ShowsAlreadyJoined /\ ~ShowsSuccess /\ ShowsForm)
    /\ isSubmitting => (ShowsForm /\ ~isSuccess /\ alreadyJoined = Null)

\* The form is on screen with a CRM call waiting for its answer.
C9_Witness == isOpen /\ isSubmitting /\ ShowsForm /\ pending # <<>>

\* The answer is an HTTP response with a 2xx status.
Is2xx(answer) ==
    answer.kind = "http" /\ answer.status >= 200 /\ answer.status < 300

\* C10: a call of submitToHubSpot sends one POST when it starts and none
\* when it is answered; it returns true exactly when the answer is HTTP 2xx,
\* false on any other answer and on a network failure, and throws nothing.
C10_OnePostBooleanResult ==
    [][ /\ (op' = "submit" /\ ValidForm) =>
              (posts' = posts + 1 /\ Len(pending') = Len(pending) + 1)
        /\ (op' = "submit" /\ ~ValidForm) => posts' = posts
        /\ (op' = "settle") =>
              /\ posts' = posts
              /\ Len(pending') = Len(pending) - 1
              /\ lastCall'.answer \in Answers
              /\ lastCall'.ok = Is2xx(lastCall'.answer)
              /\ uncaught' # "submitToHubSpot"
        /\ (op' \notin {"submit", "settle"}) => posts' = posts
      ]_vars

\* A CRM call ended in a network failure and returned false.
C10_Witness ==
    /\ op = "settle"
    /\ lastCall.answer = NetworkError
    /\ lastCall.ok = FALSE
    /\ uncaught = ""
    /\ isSuccess

\* The cache cannot be read as a record: the item is not JSON, is JSON of
\* something else, or localStorage throws.
UnreadableCache ==
    storage.kind \in {"garbage", "junk"} \/ storageMode = "denied"

\* C11: an open that finds a malformed item, or storage that throws, shows
\* Form and raises nothing.
C11_BadCacheOpensForm ==
    [][ (op' = "open" /\ UnreadableCache) =>
            (ShowsForm' /\ uncaught' = uncaught) ]_vars

\* C12: with localStorage throwing on reads and writes, an open reads no
\* record, and the settling of the CRM call of a valid submission shows
\* Success and raises nothing.
C12_StorageErrorsNeverBlock ==
    [][ (storageMode = "denied") =>
            /\ (op' = "open") => (alreadyJoined' = Null /\ uncaught' = uncaught)
            /\ (op' = "settle") =>
                  (~isSubmitting' /\ ShowsSuccess' /\ uncaught' = uncaught)
      ]_vars

\* C13: the one item under the storage key, once a record, stays a record
\* in every later state, and the item changes only in the step that
\* completes a submission, to the record of the submitted form.
C13_CachePersists ==
    [][ /\ (storage.kind = "record") => (storage'.kind = "record")
        /\ (op' # "settle") => (storage' = storage)
        /\ (storage' # storage) =>
              \E i \in DOMAIN pending : storage' = RecordOf(pending[i].data)
      ]_vars

\* The reset fired after a submission wrote the record: the record is kept
\* while the controller state is cleared.
C13_Witness ==
    /\ op = "reset"
    /\ storage = StoredRecord(sJo, sJoAtX)
    /\ alreadyJoined = Null
    /\ ~isSuccess
    /\ posts = 1

\* C14: the result of validate has a name error exactly when the name of
\* the form, trimmed, is shorter than 2 characters, whatever the email, the
\* phone and the category are.
C14_NameErrorIffShort ==
    [][ (op' = "submit") =>
            /\ (Len(Trim(formData.name)) < 2) => (errors'.name # "")
            /\ (Len(Trim(formData.name)) >= 2) => (errors'.name = "")
            /\ \A data \in [name : {formData.name}, email : ValidateEmails,
                            phone : ValidatePhones,
                            category : Categories \cup {""}] :
                  validate(data).name = errors'.name
      ]_vars

\* A form whose only fault is a padded one-character name was submitted.
C14_Witness ==
    /\ op = "submit"
    /\ formData = [name |-> <<" ", "J", " ", "\n">>, email |-> sJoAtX,
                   phone |-> sPhone, category |-> "artist"]
    /\ errors = [NoErrors EXCEPT !.name = "Name must be at least 2 characters"]

\* The one body answered when a credential is missing.
ConfigurationError ==
    [status |-> 500, json |-> TRUE, success |-> FALSE,
     error |-> "Server configuration error", message |-> "", details |-> ""]

\* C15: a POST served while SMTP_USER, SMTP_PASS or both are missing is
\* answered 500 with one fixed body, whichever is missing and whatever the
\* request holds; the ledger is not touched and no mail is dispatched.
C15_MissingCredentialsGeneric ==
    [][ (op' = "handler" /\ lastReq'.method = "POST" /\ ~CredentialsSet) =>
            /\ lastResp' = ConfigurationError
            /\ NoSideEffect
            /\ history' = history
      ]_vars

\* A valid POST was served with only SMTP_PASS missing.
C15_Witness ==
    /\ op = "handler"
    /\ lastReq.method = "POST"
    /\ lastReq.body \in ValidBodies
    /\ env.SMTP_USER
    /\ ~env.SMTP_PASS
    /\ lastResp.status = 500
    /\ emailAttempts = EmptyMap

\* The handler throws on this body before any validation answers: there is
\* no body to destructure, or every field is truthy and one of them is not
\* a string, so that sanitizeInput throws.
RaisesOnBody(body) ==
    \/ ~body.present
    \/ /\ \A x \in {body.name, body.email, body.role} : ~Falsy(x)
       /\ \E x \in {body.name, body.email, body.role} : x.k # "str"

\* The answer of the catch block: generic, the exception's message only in
\* development.
IsCaughtAnswer(resp, mode) ==
    /\ resp.status = 500
    /\ resp.json
    /\ ~resp.success
    /\ resp.error = "Failed to send email"
    /\ resp.message = ""
    /\ (resp.details # "") <=> (mode = "development")

\* C16: with the credentials set, a POST on whose body the handler throws,
\* and a sendMail call that rejects, are both answered by the catch block:
\* 500 with the generic error, the exception's message added in development
\* only; the first leaves the ledger alone and dispatches nothing.
C16_ExceptionsCaught ==
    [][ /\ (op' = "handler" /\ lastReq'.method = "POST" /\ CredentialsSet
             /\ RaisesOnBody(lastReq'.body))
           => (IsCaughtAnswer(lastResp', env.NODE_ENV) /\ NoSideEffect)
        /\ (op' = "sendFailed")
           => /\ IsCaughtAnswer(lastResp', env.NODE_ENV)
              /\ Len(inflight') = Len(inflight) - 1
              /\ emailAttempts' = emailAttempts
      ]_vars

\* A relay failure was answered in development, with the message.
C16_Witness ==
    /\ op = "sendFailed"
    /\ env.NODE_ENV = "development"
    /\ lastResp.status = 500
    /\ lastResp.details = "RelayError"
    /\ lastReq.body \in ValidBodies

\* The text has no '<', no '>' and at most 500 characters.
Clean(s) == Len(s) <= 500 /\ \A i \in 1..Len(s) : s[i] \notin {"<", ">"}

\* For every numbered request with three string fields: each field trimmed,
\* then stripped of '<' and '>', then cut to 500 characters (the address
\* lower-cased besides), and what the validations make of these values.
RECURSIVE ExpectedRows(_)
ExpectedRows(k) ==
    IF k = 0 THEN <<>>
    ELSE LET body == RequestList[k].body
             n == TrimStripTruncate(body.name.v)
             e == ToLowerCase(TrimStripTruncate(body.email.v))
             r == TrimStripTruncate(body.role.v)
         IN  Append(ExpectedRows(k - 1),
                    [name |-> n, email |-> e, role |-> r,
                     clean |-> Clean(n) /\ Clean(e) /\ Clean(r),
                     badEmail |-> ~EmailRegexTest(e),
                     badRole |-> r \notin {sArtist, sCustomer},
                     badName |-> Len(n) < 2 \/ Len(n) > 100])
ExpectedTable == ExpectedRows(Len(RequestList))
IdOf(req) == CHOOSE id \in RequestIds : RequestList[id] = req

\* C17: for a POST with the three fields present as strings, every later
\* step works on each field trimmed, then stripped of '<' and '>', then cut
\* to 500 characters: the format, role and length validations answer for
\* these values, the ledger is keyed by the lower-cased one of the address,
\* and the message dispatched carries them; no such value, no key added to
\* the ledger and no field of a message handed to the relay holds '<' or
\* '>' or exceeds 500 characters.
C17_SanitizedEverywhere ==
    [][ /\ (op' = "handler" /\ lastReq'.method = "POST" /\ CredentialsSet
             /\ AllStrings(lastReq'.body) /\ ~Missing(lastReq'.body))
           => LET x == ExpectedTable[IdOf(lastReq')]
              IN  /\ x.clean
                  /\ (lastResp'.error = "Invalid email format") <=> x.badEmail
                  /\ (lastResp'.error = "Invalid role") <=>
                         (~x.badEmail /\ x.badRole)
                  /\ (lastResp'.error = "Invalid name length") <=>
                         (~x.badEmail /\ ~x.badRole /\ x.badName)
                  /\ (lastResp'.status = 429) =>
                         (x.email \in DOMAIN emailAttempts)
                  /\ (lastResp' = Awaiting) =>
                        /\ DOMAIN emailAttempts' =
                               DOMAIN emailAttempts \cup {x.email}
                        /\ inflight'[Len(inflight')].mail =
                               [to |-> x.email, name |-> x.name,
                                role |-> x.role]
        /\ \A k \in DOMAIN emailAttempts' \ DOMAIN emailAttempts : Clean(k)
        /\ (Len(inflight') > Len(inflight)) =>
               LET mail == inflight'[Len(inflight')].mail
               IN  Clean(mail.to) /\ Clean(mail.name) /\ Clean(mail.role)
      ]_vars

\* A request with a tagged name, a padded role and a tagged address longer
\* than 500 characters was let through, on the address cut to 500.
C17_Witness ==
    /\ op = "handler"
    /\ lastResp = Awaiting
    /\ lastReq.body = Body(Str(sTaggedJo), Str(sLongEmail), Str(sArtistPadded))
    /\ inflight[Len(inflight)].mail =
           [to |-> <<"j", "@", "x", ".">> \o Rep("o", 496),
            name |-> sJo, role |-> sArtist]
    /\ DOMAIN emailAttempts = {<<"j", "@", "x", ".">> \o Rep("o", 496)}

\* The number of checks made so far for an address, in a history.
ChecksOf(h, a) == IF a \in DOMAIN h THEN Len(h[a]) ELSE 0

\* The list the ledger holds for an address.
StoredFor(m, a) == IF a \in DOMAIN m THEN m[a] ELSE <<>>

\* C18: after a rate-limit check of an address, allowed or rejected, every
\* timestamp in the list stored for it is less than 3,600,000 ms old; an
\* allowed check stores the earlier list without its expired entries, with
\* the time of the check appended.
C18_StoredListPruned ==
    [][ \A a \in DOMAIN history' :
            (ChecksOf(history', a) > ChecksOf(history, a)) =>
                LET stored == StoredFor(emailAttempts', a)
                    before == StoredFor(emailAttempts, a)
                    verdict == history'[a][Len(history'[a])]
                IN  /\ \A k \in 1..Len(stored) : now' - stored[k] < 3600000
                    /\ ~verdict.limited =>
                          stored = SelectSeq(before,
                                       LAMBDA t : now - t < 3600000)
                                   \o <<now>>
                    /\ verdict.limited => stored = before
      ]_vars

\* A check made after the window of two earlier attempts had passed: the
\* stored list holds the new timestamp alone.
C18_Witness ==
    \E a \in DOMAIN history :
        /\ op = "handler"
        /\ Len(history[a]) = 3
        /\ history[a][3].t = now
        /\ now - history[a][2].t >= WINDOW_MS
        /\ emailAttempts[a] = <<now>>

\* The request passes every gate before the rate limiter.
PassesGates(req) ==
    /\ req.method = "POST"
    /\ CredentialsSet
    /\ AllStrings(req.body)
    /\ EmailOk(req.body)
    /\ RoleOk(req.body)
    /\ NameOk(req.body)

\* Fewer than three attempts of the address are recorded in the window.
HasFreeSlot(a) == (a \in DOMAIN history) => RecordedInWindow(a, now) < 3

\* C19: a request changes the ledger exactly when it passes every gate
\* before the rate limiter and its address has a free slot; the change is
\* the time of the request appended for its address, made before the relay
\* is called. A rejected check (429), a preflight, a 405, a 400 and either
\* 500 of the handler's first part leave the ledger as it is, and so does
\* the settling of the relay call: a dispatch that fails keeps its slot.
C19_LedgerFrame ==
    [][ /\ (op' = "handler") =>
              LET a == AddressOf(lastReq'.body)
                  allowed == PassesGates(lastReq') /\ HasFreeSlot(a)
              IN  /\ (emailAttempts' # emailAttempts) <=> allowed
                  /\ allowed =>
                        /\ lastResp' = Awaiting
                        /\ Len(inflight') = Len(inflight) + 1
                        /\ emailAttempts'[a][Len(emailAttempts'[a])] = now
                        /\ \A b \in DOMAIN emailAttempts' \ {a} :
                               /\ b \in DOMAIN emailAttempts
                               /\ emailAttempts'[b] = emailAttempts[b]
                  /\ (lastResp'.status \in {200, 400, 405, 429, 500}) =>
                         emailAttempts' = emailAttempts
        /\ (op' \in {"sent", "sendFailed", "tick"}) =>
               emailAttempts' = emailAttempts
      ]_vars

\* The relay failed on the third allowed request of an address: 500, and
\* the three slots of the address are taken.
C19_Witness ==
    /\ op = "sendFailed"
    /\ lastResp.status = 500
    /\ LET a == AddressOf(lastReq.body)
       IN  /\ a \in DOMAIN emailAttempts
           /\ emailAttempts[a] = <<now, now, now>>
           /\ mailCalls[a] = 3

\* The attempts of an address accepted within the window that ends now.
AcceptedInWindow(a) ==
    IF a \in DOMAIN history THEN RecordedInWindow(a, now) ELSE 0

-----------------------------------------------------------------------------
(* Claims about the slider's side effects, the ledger's keys, the live   *)
(* validation, the timers and the CRM call                               *)

\* C21: while the instance is mounted, the page's scroll is locked and one
\* handleEsc listener is registered exactly while the slider is open; once
\* it is closed or unmounted the lock is released and no listener is left;
\* a press of Escape while open closes the slider.
C21_SideEffectsWhileOpen ==
    /\ [](IF Mounted /\ isOpen
          THEN bodyOverflow = "hidden" /\ escListeners = 1
          ELSE bodyOverflow = "" /\ escListeners = 0)
    /\ [][ /\ (Mounted /\ isOpen) => ENABLED PressEscape
           /\ op' = "escape" => (isOpen /\ ~isOpen' /\ resetTimer')
           /\ op' = "unmount" => (bodyOverflow' = "" /\ escListeners' = 0)
         ]_vars

\* Escape closed a slider whose form had been typed in: the lock is released
\* and the listener is gone.
C21_Witness ==
    /\ op = "escape"
    /\ Mounted
    /\ ~isOpen
    /\ formData.name = sJo
    /\ bodyOverflow = ""
    /\ escListeners = 0


\* The upper-case letters of the addresses of the requests.
UpperLetters == {"J", "O", "X", "A"}
NoUpperCase(s) == \A i \in 1..Len(s) : s[i] \notin UpperLetters

\* Two raw addresses differ at most in letter case and in the white space
\* around them.
SameButCaseAndPadding(s, t) ==
    LET u == Trim(s)
        w == Trim(t)
    IN  /\ Len(u) = Len(w)
        /\ \A i \in 1..Len(u) :
               \/ u[i] = w[i]
               \/ <<u[i], w[i]>> \in { <<"J", "j">>, <<"j", "J">>,
                                       <<"O", "o">>, <<"o", "O">>,
                                       <<"X", "x">>, <<"x", "X">>,
                                       <<"A", "a">>, <<"a", "A">> }

\* For every numbered request, the requests of the endpoint specification
\* whose address differs from its own at most in that way.
RECURSIVE SameAddressRows(_)
SameAddressRows(k) ==
    IF k = 0 THEN <<>>
    ELSE Append(SameAddressRows(k - 1),
                { j \in EndpointIds :
                      /\ RequestList[j].body.email.k = "str"
                      /\ SameButCaseAndPadding(RequestList[j].body.email.v,
                                               RequestList[k].body.email.v) })
SameAddressTable == SameAddressRows(Len(RequestList))

\* The addresses whose list of checks grew in this step.
CheckedNow == {a \in DOMAIN history' : ChecksOf(history', a) > ChecksOf(history, a)}

\* C22: the address a request is checked under by the rate limiter is the
\* sanitized, lower-cased form of the address sent, and it has passed the
\* shape validation in that form: the key has no upper-case letter, no
\* white space around it, no '<' or '>' and at most 500 characters, and
\* every request whose address differs from the one sent only in letter
\* case or surrounding white space has the same key.
C22_LedgerKeyLowerCased ==
    [][ (op' = "handler" /\ history' # history) =>
            LET raw == lastReq'.body.email.v
            IN  /\ Cardinality(CheckedNow) = 1
                /\ DOMAIN emailAttempts' \subseteq DOMAIN history'
                /\ \A a \in CheckedNow :
                       /\ NoUpperCase(a)
                       /\ Trim(a) = a
                       /\ Clean(a)
                       /\ EmailRegexTest(a)
                       /\ SameButCaseAndPadding(a, StripTags(Trim(raw)))
                       /\ \A j \in SameAddressTable[IdOf(lastReq')] :
                              San(j).email = a
      ]_vars

\* A request whose address is padded and in mixed case was rejected as the
\* fourth of the lower-case address, the only entry of the ledger.
C22_Witness ==
    /\ op = "handler"
    /\ lastReq.body.email = Str(sJoAtXMixed)
    /\ DOMAIN history = {sJoAtX}
    /\ DOMAIN emailAttempts = {sJoAtX}
    /\ Len(history[sJoAtX]) = 4
    /\ history[sJoAtX][4].limited
    /\ lastResp.status = 429


\* C23: every field the CRM Submitter posts is the trimmed form of what was
\* entered, under the provider's names, the category as the provider's
\* label.
C23_PostsSanitizedFields ==
    \A i \in 1..Len(pending) :
        LET entered == pending[i].data
            sent == HubSpotFields(entered)
        IN  /\ DOMAIN sent = {"firstname", "email", "phone",
                              "what_best_describes_you"}
            /\ sent.firstname = Trim(entered.name)
            /\ sent.email = Trim(entered.email)
            /\ sent.phone = Trim(entered.phone)
            /\ entered.category = "artist" =>
                   sent.what_best_describes_you = "Artist"
            /\ entered.category = "customer" =>
                   sent.what_best_describes_you = "Customer"


\* C24: the Submitting flag is cleared by the settling of the CRM call and
\* by nothing else: a close, the delayed reset and a reopening leave the
\* flag and the waiting call as they are, so a call that never settles
\* leaves the flag set for ever; when the call settles and the cache can
\* be written, Submitting leads to Success.
C24_SubmittingUntilSettled ==
    /\ [][ /\ (isSubmitting /\ ~isSubmitting') => op' = "settle"
           /\ (op' \in {"close", "reset", "open"}) =>
                  (pending' = pending /\ isSubmitting' = isSubmitting)
           /\ (isSubmitting /\ op' # "settle") =>
                  (isSubmitting' /\ pending' # <<>>)
         ]_vars
    /\ ((isSubmitting /\ storageMode = "ok") ~> isSuccess)

\* The call settled after the slider had been closed and reset while it was
\* waiting: Success, and the record written.
C24_Witness ==
    /\ op = "settle"
    /\ ~isSubmitting
    /\ isSuccess
    /\ ~isOpen
    /\ ~resetTimer
    /\ formData = EmptyForm
    /\ storage = StoredRecord(sJo, sJoAtX)


\* The fields whose error entry this step changes.
ErrorsChanged == {g \in Fields : errors'[g] # errors[g]}

\* C25: a change or a blur of field f (a pick in the dropdown and the
\* delayed blur of its button are those of category) changes at most the
\* error entry of f; a change of a field not yet touched changes no entry;
\* of the events that validate, only a submit attempt sets the entries of
\* all fields at once, to what validate returns for the form.
C25_LiveValidationFrame ==
    [][ /\ (op' = "edit") =>
               \E f \in Fields :
                   /\ ErrorsChanged \subseteq {f}
                   /\ \A g \in Fields \ {f} : formData'[g] = formData[g]
                   /\ touched' \subseteq touched \cup {f}
                   /\ (formData'[f] # formData[f] /\ f \notin touched) =>
                          errors' = errors
        /\ (op' = "blurTimeout") => ErrorsChanged \subseteq {"category"}
        /\ (op' \in {"edit", "blurTimeout", "submit"}
               /\ Cardinality(ErrorsChanged) > 1) => op' = "submit"
        /\ (op' = "submit") =>
               (errors' = validate(formData) /\ touched' = Fields)
      ]_vars

\* The name was left invalid and shows its error; the email, typed wrong
\* but never left, shows none.
C25_Witness ==
    /\ op = "edit"
    /\ FormShown
    /\ touched = {"name"}
    /\ formData.name = sShortName
    /\ errors.name = "Name must be at least 2 characters"
    /\ formData.email = sNoAt
    /\ errors.email = ""
    /\ errors.phone = ""


\* C26: whenever no timeout of the dropdown's onBlur is pending, the error
\* of every touched field is what validate returns for that field on the
\* form as it is; so once a category is picked and the timeout has fired,
\* no category error is recorded.
C26_ErrorsMatchValidation ==
    (Mounted /\ blurTimers = <<>>) =>
        /\ \A f \in touched : errors[f] = validate(formData)[f]
        /\ formData.category # "" => errors.category = ""


\* C27: at most one CRM call of the instance is waiting at any time, and
\* one is waiting exactly while the Submitting flag is set; while the flag
\* is set no step, a close, the delayed reset and a reopening included,
\* starts another call.
C27_OneSubmissionInFlight ==
    /\ [](Len(pending) <= 1 /\ (isSubmitting <=> pending # <<>>))
    /\ [][isSubmitting => (posts' = posts /\ Len(pending') <= Len(pending))]_vars

\* The slider was closed, reset and reopened while its call was waiting:
\* the empty form is shown, still Submitting, and no second call was made.
C27_Witness ==
    /\ op = "open"
    /\ FormShown
    /\ formData = EmptyForm
    /\ isSubmitting
    /\ Len(pending) = 1
    /\ posts = 1


\* C28: the record a submission writes to the cache holds the name and the
\* email of the form as it was validated and posted when the submission
\* started, whatever was typed, closed or reset while the call waited.
C28_CacheHoldsSubmittedData ==
    [][ (op' = "settle" /\ ~storeSubmissionThrows) =>
            \E i \in 1..Len(pending) :
                /\ pending' = SubSeq(pending, 1, i - 1)
                                  \o SubSeq(pending, i + 1, Len(pending))
                /\ ~HasErrors(validate(pending[i].data))
                /\ storage' = RecordOf(pending[i].data)
                /\ storage'.name = HubSpotFields(pending[i].data).firstname
                /\ storage'.email = HubSpotFields(pending[i].data).email
      ]_vars

\* The name and the email were retyped while the call waited: the record
\* written is that of the form submitted.
C28_Witness ==
    /\ op = "settle"
    /\ isOpen
    /\ formData.name = sShortName
    /\ formData.email = sNoAt
    /\ storage = StoredRecord(sJo, sJoAtX)

\* C29: whenever the Success flag is set the cache holds a record; the flag
\* is set only by the settling of a call whose cache write returned, and a
\* write that throws leaves the flag as it was, unset.
C29_SuccessImpliesCached ==
    /\ [](isSuccess => storage.kind = "record")
    /\ [][ /\ (~isSuccess /\ isSuccess') =>
                  /\ op' = "settle"
                  /\ ~storeSubmissionThrows
                  /\ storage'.kind = "record"
           /\ (op' = "settle" /\ storeSubmissionThrows) =>
                  /\ ~isSuccess'
                  /\ storage' = storage
                  /\ uncaught' = "storeSubmission"
         ]_vars

\* The call settled in a browser that had no record: Success is shown and
\* the record is in the cache.
C29_Witness ==
    /\ op = "settle"
    /\ isOpen
    /\ ShowsSuccess
    /\ formData.name = sJo
    /\ storage = StoredRecord(sJo, sJoAtX)
    /\ posts = 1


\* C30: the reset timeout is pending only while the slider is closed and
\* fires only then; a reopening cancels it and, like the close before it,
\* leaves the fields, the errors, the touched set and the Success flag as
\* they were.
C30_ResetOnlyWhileClosed ==
    /\ [](isOpen => ~resetTimer)
    /\ [][ /\ (op' = "reset") => (resetTimer /\ ~isOpen /\ ~isOpen')
           /\ (op' \in {"open", "close"}) =>
                  /\ formData' = formData
                  /\ errors' = errors
                  /\ touched' = touched
                  /\ isSuccess' = isSuccess
           /\ (op' = "open") => ~resetTimer'
         ]_vars

\* The slider was closed and reopened before the timeout fired: the form
\* shows what was typed, with its error, and no timeout is pending.
C30_Witness ==
    /\ op = "open"
    /\ FormShown
    /\ ~resetTimer
    /\ formData.name = sJo
    /\ formData.email = sNoAt
    /\ "email" \in touched
    /\ errors.email = "Enter a valid email address"

=============================================================================
